---------------------------- MODULE Spec2Model ----------------------------
(***************************************************************************)
(* gensnaps.py: generation of the cross-language serialization fixtures.   *)
(*                                                                         *)
(* One process of the script is a strictly sequential run of steps over    *)
(* the filesystem below the workspace directory: prerequisite checks,      *)
(* set-up of a temporary clone directory, external commands (git, mvn,     *)
(* cmake, ctest) and the harvest of the generated *.sk files.  The model   *)
(* runs a bounded number of processes one after the other over the same    *)
(* filesystem, which is what persists between the runs.                    *)
(***************************************************************************)
EXTENDS Integers, Sequences, FiniteSets, TLC

VARIABLES
    world,   \* the running (or last) process and the filesystem it works on
    nruns,   \* the number of processes launched so far
    twin     \* a second process, used only by the lock-step specification

vars == <<world, nruns, twin>>

(***************************************************************************)
(* Bounds of the model.                                                    *)
(***************************************************************************)
\* The number of processes launched one after the other.
MaxRuns == 2

(***************************************************************************)
(* Paths, relative to workspace_dir.                                       *)
(***************************************************************************)
DataDir == "serialization_test_data"

JavaTempDir == "tmp_datasketches_java"

JavaOutputDir == "serialization_test_data/java_generated_files"

CppTempDir == "tmp_datasketches_cpp"

CppOutputDir == "serialization_test_data/cpp_generated_files"

Dirs == {DataDir, JavaTempDir, JavaOutputDir, CppTempDir, CppOutputDir}

\* generated_files_dir, relative to the Java clone
JavaGeneratedRel == <<"serialization_test_data", "java_generated_files">>

\* build_dir, relative to the C++ clone
CppBuildRel == <<"build">>

(***************************************************************************)
(* File names are sequences of tokens, so that a glob pattern "*<suffix>"  *)
(* is decided on the name: "kll_cpp.sk" is <<"kll", "_cpp", ".sk">>.       *)
(***************************************************************************)
JavaPattern == <<".sk">>            \* "*.sk"

CppPattern == <<"_cpp", ".sk">>     \* "*_cpp.sk"

IsPrefix(p, s) == Len(p) <= Len(s) /\ SubSeq(s, 1, Len(p)) = p

\* fnmatch of a name against "*" followed by the literal suffix
Match(name, suffix) ==
    /\ Len(suffix) <= Len(name)
    /\ SubSeq(name, Len(name) - Len(suffix) + 1, Len(name)) = suffix

(***************************************************************************)
(* The filesystem: each directory of Dirs is absent or a tree, that is the *)
(* set of its sub-directories and the set of its files.  A file is its     *)
(* directory (relative to the tree), its name and its content; the content *)
(* of a generated file is identified by the place it was generated at.     *)
(***************************************************************************)
Absent == [exists |-> FALSE, dirs |-> {}, files |-> {}]

EmptyDir == [exists |-> TRUE, dirs |-> {}, files |-> {}]

File(dir, name) == [dir |-> dir, name |-> name, data |-> dir]

RepoFiles == {[dir |-> <<>>, name |-> <<"README", ".md">>, data |-> <<>>]}

\* What the Java test suite may leave in its generated-files directory.
JavaGenerated ==
    { File(JavaGeneratedRel, <<"kll", ".sk">>),
      File(JavaGeneratedRel, <<"notes", ".txt">>) }

\* What the C++ tests may leave below the build directory.
CppGenerated ==
    { File(<<"build", "test">>, <<"kll", "_cpp", ".sk">>),
      File(<<"build", "test", "Release">>, <<"kll", "_cpp", ".sk">>),
      File(<<"build", "test">>, <<"kll", ".sk">>) }

\* Path.exists()
Exists(fs, d) == fs[d].exists

\* The directories above a relative directory, itself included.
Ancestors(dir) == {SubSeq(dir, 1, k) : k \in 1..Len(dir)}

\* Path.glob(pattern) on directory dir of a tree: the files directly in it
Glob(tree, dir, pattern) ==
    {f \in tree.files : f.dir = dir /\ Match(f.name, pattern)}

\* Mutant of RGlob: glob, which does not descend.
RGlob_Shallow(tree, dir, pattern) ==
    {f \in tree.files : f.dir = dir /\ Match(f.name, pattern)}

\* Path.rglob(pattern): the files in dir and anywhere below it
RGlob(tree, dir, pattern) ==
    {f \in tree.files : IsPrefix(dir, f.dir) /\ Match(f.name, pattern)}

\* shutil.copy2(file_path, output_dir): the file lands in the directory
\* under its own name, replacing a file of that name.
Copy2(tree, f) ==
    [tree EXCEPT !.files =
        {g \in @ : g.name # f.name}
            \cup {[dir |-> <<>>, name |-> f.name, data |-> f.data]}]

\* All the orders a directory scan may yield a set of files in.
Perms(S) ==
    {s \in [1..Cardinality(S) -> S] : \A i, j \in 1..Cardinality(S) :
                                          s[i] = s[j] => i = j}

(***************************************************************************)
(* Outcomes of the external part of a step: whether shutil.which finds the *)
(* command, the exit status of a command, the files it leaves, and the     *)
(* order a directory scan yields them in.                                  *)
(***************************************************************************)
OsNames == {"posix", "nt"}

NoOutcome == [found |-> TRUE, rc |-> 0, dir |-> FALSE, made |-> {}, order |-> <<>>]

WhichOutcomes == {[NoOutcome EXCEPT !.found = b] : b \in BOOLEAN}

RcOutcomes == {[NoOutcome EXCEPT !.rc = r] : r \in {0, 1}}

MvnOutcomes ==
    {[NoOutcome EXCEPT !.rc = r, !.dir = TRUE, !.made = m] :
        r \in {0, 1}, m \in SUBSET JavaGenerated}
    \cup RcOutcomes

CtestOutcomes ==
    {[NoOutcome EXCEPT !.rc = r, !.made = m] :
        r \in {0, 1}, m \in SUBSET CppGenerated}

JavaScanOutcomes == {[NoOutcome EXCEPT !.order = s] : s \in Perms(JavaGenerated)}

CppScanOutcomes == {[NoOutcome EXCEPT !.order = s] : s \in Perms(CppGenerated)}

\* The files of set S in the order the scan yields them.
Listing(S, order) == SelectSeq(order, LAMBDA f : f \in S)

(***************************************************************************)
(* A process.  world.trace is what the process has done so far: one entry  *)
(* per step, with the pipeline, the operation, its argument, the           *)
(* directories of Dirs it reads or writes, and whether it succeeded.       *)
(***************************************************************************)
Flags == {"--java", "--cpp", "--all"}

Running == -1

\* parser.parse_args(): three store_true switches
ParseArgs(argv) ==
    [java |-> "--java" \in argv, cpp |-> "--cpp" \in argv, all |-> "--all" \in argv]

\* Mutant of DefaultAll: the default is forgotten.
DefaultAll_Forgotten(args) == args

\* "Default to all if no arguments provided"
DefaultAll(args) ==
    IF ~args.java /\ ~args.cpp /\ ~args.all
    THEN [args EXCEPT !.all = TRUE]
    ELSE args

\* The state of a process as main() is entered, on filesystem fs.
NewProcess(fs, argv, os_name) ==
    [ argv         |-> argv,
      os_name      |-> os_name,
      args         |-> ParseArgs(argv),
      pc           |-> "default_all",
      exit_code    |-> Running,
      cause        |-> "none",
      fs           |-> fs,
      files_copied |-> [java |-> 0, cpp |-> 0],
      trace        |-> <<>>,
      warned       |-> {},
      cleaned      |-> {} ]

Log(w, pl, op, arg, at, ok) ==
    [w EXCEPT !.trace =
        Append(@, [pl |-> pl, op |-> op, arg |-> arg, at |-> at, ok |-> ok])]

Goto(w, next) == [w EXCEPT !.pc = next]

\* sys.exit(1)
SysExit(w, cause) ==
    [w EXCEPT !.pc = "exited", !.exit_code = 1, !.cause = cause]

\* An exception no handler catches: the interpreter exits with status 1.
Raise(w) ==
    [w EXCEPT !.pc = "exited", !.exit_code = 1, !.cause = "exception"]

\* main() returns: the interpreter exits with status 0.
Return(w) == [w EXCEPT !.pc = "exited", !.exit_code = 0]

\* Mutant of check_command_installed: the error is printed, sys.exit is not called.
check_command_installed_NoExit(w, pl, command, found, next) ==
    Goto(Log(w, pl, "which", command, {}, found), next)

\* check_command_installed(command); found: shutil.which(command) is not None
check_command_installed(w, pl, command, found, next) ==
    IF ~found
    THEN SysExit(Log(w, pl, "which", command, {}, FALSE), "missing_command")
    ELSE Goto(Log(w, pl, "which", command, {}, TRUE), next)

\* Mutant of run_command: subprocess.call, the status not looked at.
run_command_Unchecked(w, pl, command, at, rc, next) ==
    Goto(Log(w, pl, "run", command, {at}, rc = 0), next)

\* run_command(command, cwd): the command has run in directory at and
\* ended with status rc.
run_command(w, pl, command, at, rc, next) ==
    IF rc # 0
    THEN SysExit(Log(w, pl, "run", command, {at}, FALSE), "command_failed")
    ELSE Goto(Log(w, pl, "run", command, {at}, TRUE), next)

\* mvn_cmd_name
MvnCmdName(os_name) == IF os_name = "nt" THEN "mvn.cmd" ELSE "mvn"

\* Mutant of RemoveExisting: the existing directory is kept.
RemoveExisting_Kept(w, pl, temp_dir) ==
    Log(w, pl, "exists", temp_dir, {temp_dir}, TRUE)

\* shutil.rmtree(temp_dir), when temp_dir.exists()
RemoveExisting(w, pl, temp_dir) ==
    IF Exists(w.fs, temp_dir)
    THEN Log([w EXCEPT !.fs[temp_dir] = Absent,
                       !.cleaned = IF w.fs[temp_dir] # EmptyDir
                                   THEN @ \cup {temp_dir} ELSE @],
             pl, "rmtree", temp_dir, {temp_dir}, TRUE)
    ELSE Log(w, pl, "exists", temp_dir, {temp_dir}, TRUE)

\* Path.mkdir(): FileExistsError when the directory is there
Mkdir(w, pl, d, next) ==
    IF Exists(w.fs, d)
    THEN Raise(Log(w, pl, "mkdir", d, {d}, FALSE))
    ELSE Goto(Log([w EXCEPT !.fs[d] = EmptyDir], pl, "mkdir", d, {d}, TRUE), next)

\* "Setup temporary directory"
SetupTempDir(w, pl, temp_dir, next) ==
    Mkdir(RemoveExisting(w, pl, temp_dir), pl, temp_dir, next)

\* Mutant of MakeOutputDir: the output directory is set up afresh, as the
\* temporary directory is.
MakeOutputDir_Afresh(w, pl, output_dir, next) ==
    Goto(Log([w EXCEPT !.fs[DataDir] = [@ EXCEPT !.exists = TRUE],
                       !.fs[output_dir] = EmptyDir],
             pl, "mkdir", output_dir, {DataDir, output_dir}, TRUE),
         next)

\* output_dir.mkdir(parents=True, exist_ok=True)
MakeOutputDir(w, pl, output_dir, next) ==
    Goto(Log([w EXCEPT !.fs[DataDir] = [@ EXCEPT !.exists = TRUE],
                       !.fs[output_dir] = [@ EXCEPT !.exists = TRUE]],
             pl, "mkdir", output_dir, {DataDir, output_dir}, TRUE),
         next)

\* git clone into temp_dir: it refuses a directory that is not empty, and
\* leaves nothing of its own behind when it fails.
GitCloneRc(tree, o) == IF tree \notin {Absent, EmptyDir} THEN 1 ELSE o.rc

GitCloneTree(tree, o) ==
    IF GitCloneRc(tree, o) = 0 THEN [EmptyDir EXCEPT !.files = RepoFiles] ELSE tree

\* A tree with the files of made added, and the directories they are in.
WithFiles(tree, made) ==
    [tree EXCEPT !.files = @ \cup made,
                 !.dirs = @ \cup UNION {Ancestors(f.dir) : f \in made}]

\* mvn test -P generate-java-files, in the clone
MvnTree(tree, o) ==
    LET t == WithFiles(tree, o.made)
    IN  IF o.dir THEN [t EXCEPT !.dirs = @ \cup Ancestors(JavaGeneratedRel)] ELSE t

\* build_dir.mkdir(exist_ok=True)
MakeBuildDir(w, next) ==
    Goto(Log([w EXCEPT !.fs[CppTempDir].dirs = @ \cup {CppBuildRel}],
             "cpp", "mkdir", "build", {CppTempDir}, TRUE),
         next)

\* The harvest loop: copy2 of every file of the listing, in its order.
RECURSIVE CopyAll(_, _)
CopyAll(tree, listing) ==
    IF listing = <<>>
    THEN tree
    ELSE CopyAll(Copy2(tree, Head(listing)), Tail(listing))

\* Mutant of CopyFiles: no file copied is an error that ends the process.
CopyFiles_ZeroIsFatal(w, pl, temp_dir, output_dir, listing, next) ==
    LET n  == Len(listing)
        w1 == Log([w EXCEPT !.fs[output_dir] = CopyAll(@, listing),
                            !.files_copied[pl] = n],
                  pl, "copy", output_dir, {temp_dir, output_dir}, TRUE)
    IN  IF n = 0 THEN SysExit(w1, "command_failed") ELSE Goto(w1, next)

\* "Copy generated files": the loop, the count and the final message
CopyFiles(w, pl, temp_dir, output_dir, listing, next) ==
    LET n  == Len(listing)
        w1 == Log([w EXCEPT !.fs[output_dir] = CopyAll(@, listing),
                            !.files_copied[pl] = n],
                  pl, "copy", output_dir, {temp_dir, output_dir}, TRUE)
    IN  IF n = 0
        THEN Goto(Log([w1 EXCEPT !.warned = @ \cup {pl}],
                      pl, "warning", output_dir, {}, TRUE), next)
        ELSE Goto(w1, next)

\* Mutant of FindGenerated: the error is printed, sys.exit is not called.
FindGenerated_NoExit(w, next) ==
    Goto(Log(w, "java", "exists", "generated", {JavaTempDir},
             JavaGeneratedRel \in w.fs[JavaTempDir].dirs),
         next)

\* generated_files_dir.exists(), or the error and sys.exit(1)
FindGenerated(w, next) ==
    IF JavaGeneratedRel \notin w.fs[JavaTempDir].dirs
    THEN SysExit(Log(w, "java", "exists", "generated", {JavaTempDir}, FALSE),
                 "missing_directory")
    ELSE Goto(Log(w, "java", "exists", "generated", {JavaTempDir}, TRUE), next)

(***************************************************************************)
(* The steps of main(), generate_java_files() and generate_cpp_files().    *)
(* Step(w, o) is the step the process w is at, when the external part of   *)
(* the step (a look-up, a command, a directory scan) turns out as o.       *)
(***************************************************************************)
\* if args.java or args.all: generate_java_files(workspace_dir)
DispatchJavaStep(w) ==
    IF w.args.java \/ w.args.all
    THEN Goto(Log(w, "java", "begin", "", {}, TRUE), "j_check_git")
    ELSE Goto(w, "dispatch_cpp")

\* Mutant of DispatchCppStep: --all is not looked at.
DispatchCppStep_FlagOnly(w) ==
    IF w.args.cpp
    THEN Goto(Log(w, "cpp", "begin", "", {}, TRUE), "c_check_git")
    ELSE Goto(w, "main_return")

\* if args.cpp or args.all: generate_cpp_files(workspace_dir)
DispatchCppStep(w) ==
    IF w.args.cpp \/ w.args.all
    THEN Goto(Log(w, "cpp", "begin", "", {}, TRUE), "c_check_git")
    ELSE Goto(w, "main_return")

JavaSetupStep(w) == SetupTempDir(w, "java", JavaTempDir, "j_clone")

\* Mutant of CppSetupStep: the Java pipeline's temp_dir, pasted.
CppSetupStep_Pasted(w) == SetupTempDir(w, "cpp", JavaTempDir, "c_clone")

CppSetupStep(w) == SetupTempDir(w, "cpp", CppTempDir, "c_clone")

JavaCloneStep(w, o) ==
    LET t == w.fs[JavaTempDir]
    IN  run_command([w EXCEPT !.fs[JavaTempDir] = GitCloneTree(t, o)],
                    "java", "git clone", JavaTempDir, GitCloneRc(t, o), "j_mvn")

JavaMvnStep(w, o) ==
    run_command([w EXCEPT !.fs[JavaTempDir] = MvnTree(@, o)],
                "java", MvnCmdName(w.os_name) \o " test", JavaTempDir, o.rc, "j_find")

JavaCopyStep(w, o) ==
    CopyFiles(w, "java", JavaTempDir, JavaOutputDir,
              Listing(Glob(w.fs[JavaTempDir], JavaGeneratedRel, JavaPattern), o.order),
              "dispatch_cpp")

CppCloneStep(w, o) ==
    LET t == w.fs[CppTempDir]
    IN  run_command([w EXCEPT !.fs[CppTempDir] = GitCloneTree(t, o)],
                    "cpp", "git clone", CppTempDir, GitCloneRc(t, o), "c_mkdir_build")

CppConfigureStep(w, o) ==
    run_command([w EXCEPT !.fs[CppTempDir] =
                    WithFiles(@, {File(CppBuildRel, <<"CMakeCache", ".txt">>)})],
                "cpp", "cmake ..", CppTempDir, o.rc, "c_build")

CppBuildStep(w, o) ==
    run_command([w EXCEPT !.fs[CppTempDir] =
                    IF o.rc = 0
                    THEN WithFiles(@, {File(<<"build", "test">>, <<"kll_test">>)})
                    ELSE @],
                "cpp", "cmake --build", CppTempDir, o.rc, "c_ctest")

CppCtestStep(w, o) ==
    run_command([w EXCEPT !.fs[CppTempDir] = WithFiles(@, o.made)],
                "cpp", "ctest", CppTempDir, o.rc, "c_mkdir_output")

CppCopyStep(w, o) ==
    CopyFiles(w, "cpp", CppTempDir, CppOutputDir,
              Listing(RGlob(w.fs[CppTempDir], CppBuildRel, CppPattern), o.order),
              "main_return")

\* The command the prerequisite check at w.pc looks up.
CheckedCommand(w) ==
    CASE w.pc \in {"j_check_git", "c_check_git"} -> "git"
      [] w.pc = "j_check_java"  -> "java"
      [] w.pc = "j_check_mvn"   -> MvnCmdName(w.os_name)
      [] w.pc = "c_check_cmake" -> "cmake"
      [] w.pc = "c_check_ctest" -> "ctest"

Step(w, o) ==
    CASE w.pc = "default_all"    -> Goto([w EXCEPT !.args = DefaultAll(@)], "dispatch_java")
      [] w.pc = "dispatch_java"  -> DispatchJavaStep(w)
      [] w.pc = "j_check_git"    -> check_command_installed(w, "java", CheckedCommand(w), o.found, "j_check_java")
      [] w.pc = "j_check_java"   -> check_command_installed(w, "java", CheckedCommand(w), o.found, "j_check_mvn")
      [] w.pc = "j_check_mvn"    -> check_command_installed(w, "java", CheckedCommand(w), o.found, "j_setup")
      [] w.pc = "j_setup"        -> JavaSetupStep(w)
      [] w.pc = "j_clone"        -> JavaCloneStep(w, o)
      [] w.pc = "j_mvn"          -> JavaMvnStep(w, o)
      [] w.pc = "j_find"         -> FindGenerated(w, "j_mkdir_output")
      [] w.pc = "j_mkdir_output" -> MakeOutputDir(w, "java", JavaOutputDir, "j_copy")
      [] w.pc = "j_copy"         -> JavaCopyStep(w, o)
      [] w.pc = "dispatch_cpp"   -> DispatchCppStep(w)
      [] w.pc = "c_check_git"    -> check_command_installed(w, "cpp", CheckedCommand(w), o.found, "c_check_cmake")
      [] w.pc = "c_check_cmake"  -> check_command_installed(w, "cpp", CheckedCommand(w), o.found, "c_check_ctest")
      [] w.pc = "c_check_ctest"  -> check_command_installed(w, "cpp", CheckedCommand(w), o.found, "c_setup")
      [] w.pc = "c_setup"        -> CppSetupStep(w)
      [] w.pc = "c_clone"        -> CppCloneStep(w, o)
      [] w.pc = "c_mkdir_build"  -> MakeBuildDir(w, "c_configure")
      [] w.pc = "c_configure"    -> CppConfigureStep(w, o)
      [] w.pc = "c_build"        -> CppBuildStep(w, o)
      [] w.pc = "c_ctest"        -> CppCtestStep(w, o)
      [] w.pc = "c_mkdir_output" -> MakeOutputDir(w, "cpp", CppOutputDir, "c_copy")
      [] w.pc = "c_copy"         -> CppCopyStep(w, o)
      [] w.pc = "main_return"    -> Return(w)
      [] OTHER                   -> w

\* The PATH of a process does not change: a command the process has found
\* once is found again.
FoundBefore(w, command) ==
    \E i \in DOMAIN w.trace :
        w.trace[i].op = "which" /\ w.trace[i].arg = command /\ w.trace[i].ok

\* The outcomes the external part of the step process w is at can have.
OutcomesAt(w) ==
    CASE w.pc \in {"j_check_git", "j_check_java", "j_check_mvn",
                   "c_check_git", "c_check_cmake", "c_check_ctest"} ->
            IF FoundBefore(w, CheckedCommand(w)) THEN {NoOutcome} ELSE WhichOutcomes
      [] w.pc \in {"j_clone", "c_clone", "c_configure", "c_build"} -> RcOutcomes
      [] w.pc = "j_mvn"   -> MvnOutcomes
      [] w.pc = "c_ctest" -> CtestOutcomes
      [] w.pc = "j_copy"  -> JavaScanOutcomes
      [] w.pc = "c_copy"  -> CppScanOutcomes
      [] OTHER            -> {NoOutcome}

(***************************************************************************)
(* The specification: processes launched one after the other.              *)
(***************************************************************************)
FreshFs == [d \in Dirs |-> Absent]

Idle == [NewProcess(FreshFs, {}, "posix") EXCEPT !.pc = "idle"]

Init ==
    /\ world = Idle
    /\ twin = Idle
    /\ nruns = 0

At(l) == world.pc = l

Do ==
    /\ \E o \in OutcomesAt(world) : world' = Step(world, o)
    /\ UNCHANGED <<nruns, twin>>

\* python gensnaps.py [--java] [--cpp] [--all], once the last process is over
Launch ==
    /\ world.pc \in {"idle", "exited"}
    /\ nruns < MaxRuns
    /\ \E argv \in SUBSET Flags, os_name \in OsNames :
          world' = NewProcess(world.fs, argv, os_name)
    /\ nruns' = nruns + 1
    /\ UNCHANGED twin

DefaultToAll == At("default_all") /\ Do
DispatchJava == At("dispatch_java") /\ Do
JavaCheckGit == At("j_check_git") /\ Do
JavaCheckJava == At("j_check_java") /\ Do
JavaCheckMvn == At("j_check_mvn") /\ Do
JavaSetupTempDir == At("j_setup") /\ Do
JavaClone == At("j_clone") /\ Do
JavaMvn == At("j_mvn") /\ Do
JavaFindGenerated == At("j_find") /\ Do
JavaMakeOutputDir == At("j_mkdir_output") /\ Do
JavaCopy == At("j_copy") /\ Do
DispatchCpp == At("dispatch_cpp") /\ Do
CppCheckGit == At("c_check_git") /\ Do
CppCheckCmake == At("c_check_cmake") /\ Do
CppCheckCtest == At("c_check_ctest") /\ Do
CppSetupTempDir == At("c_setup") /\ Do
CppClone == At("c_clone") /\ Do
CppMakeBuildDir == At("c_mkdir_build") /\ Do
CppConfigure == At("c_configure") /\ Do
CppBuild == At("c_build") /\ Do
CppCtest == At("c_ctest") /\ Do
CppMakeOutputDir == At("c_mkdir_output") /\ Do
CppCopy == At("c_copy") /\ Do
MainReturn == At("main_return") /\ Do

Next ==
    \/ Launch
    \/ DefaultToAll
    \/ DispatchJava
    \/ JavaCheckGit
    \/ JavaCheckJava
    \/ JavaCheckMvn
    \/ JavaSetupTempDir
    \/ JavaClone
    \/ JavaMvn
    \/ JavaFindGenerated
    \/ JavaMakeOutputDir
    \/ JavaCopy
    \/ DispatchCpp
    \/ CppCheckGit
    \/ CppCheckCmake
    \/ CppCheckCtest
    \/ CppSetupTempDir
    \/ CppClone
    \/ CppMakeBuildDir
    \/ CppConfigure
    \/ CppBuild
    \/ CppCtest
    \/ CppMakeOutputDir
    \/ CppCopy
    \/ MainReturn

Spec == Init /\ [][Next]_vars

(***************************************************************************)
(* The lock-step specification: every process is launched twice on the     *)
(* same filesystem, the second time with --all in place of no switch at    *)
(* all, and the two take their steps together, with the same outcome of    *)
(* every look-up, command and directory scan.                              *)
(***************************************************************************)
TwinArgv(argv) == IF argv = {} THEN {"--all"} ELSE argv

TwinLaunch ==
    /\ world.pc \in {"idle", "exited"}
    /\ twin.pc \in {"idle", "exited"}
    /\ nruns < MaxRuns
    /\ \E argv \in SUBSET Flags, os_name \in OsNames :
          /\ world' = NewProcess(world.fs, argv, os_name)
          /\ twin' = NewProcess(world.fs, TwinArgv(argv), os_name)
    /\ nruns' = nruns + 1

TwinStep ==
    /\ world.pc \notin {"idle", "exited"} \/ twin.pc \notin {"idle", "exited"}
    /\ \E o \in OutcomesAt(world) \cup OutcomesAt(twin) :
          /\ world' = Step(world, o)
          /\ twin' = Step(twin, o)
    /\ UNCHANGED nruns

TwinNext == TwinLaunch \/ TwinStep

TwinSpec == Init /\ [][TwinNext]_vars

(***************************************************************************)
(* Vocabulary of the properties.                                           *)
(***************************************************************************)
Entries(w) == {w.trace[i] : i \in DOMAIN w.trace}

\* The pipeline has been entered.
Begun(w, pl) == \E t \in Entries(w) : t.pl = pl /\ t.op = "begin"

\* The pipeline has run its harvest loop, its last step.
Harvested(w, pl) == \E t \in Entries(w) : t.pl = pl /\ t.op = "copy"

\* A prerequisite check that did not find its command.
IsMissingCommand(t) == t.op = "which" /\ ~t.ok

\* An external command that exited non-zero.
IsCommandFailure(t) == t.op = "run" /\ ~t.ok

\* The Java generated-files directory looked for and not found.
IsMissingDirectory(t) == t.op = "exists" /\ t.arg = "generated" /\ ~t.ok

IsFatal(t) == IsMissingCommand(t) \/ IsCommandFailure(t) \/ IsMissingDirectory(t)

\* The pipelines the command line asks for.
WantsJava(argv) == "--java" \in argv \/ "--all" \in argv \/ argv = {}

WantsCpp(argv) == "--cpp" \in argv \/ "--all" \in argv \/ argv = {}

Live(w) == w.pc \notin {"idle", "exited"}

\* The entries a step has added to the trace.
Added(w, wn) == {wn.trace[i] : i \in (Len(w.trace) + 1)..Len(wn.trace)}

Names(tree) == {f.name : f \in tree.files}

JavaDirs == {"tmp_datasketches_java", "serialization_test_data/java_generated_files"}

CppDirs == {"tmp_datasketches_cpp", "serialization_test_data/cpp_generated_files"}

(***************************************************************************)
(* C1 as stated: once a prerequisite check has found its command missing,  *)
(* the process has exited with status 1 and no external command (git       *)
(* clone, mvn test, cmake, ctest) of any pipeline has been run by it.      *)
(***************************************************************************)
C1_NoActionOfAnyPipeline ==
    \A t \in Entries(world) :
        IsMissingCommand(t) =>
            /\ world.exit_code = 1
            /\ \A u \in Entries(world) : u.op # "run"

(***************************************************************************)
(* C1 as amended: once a prerequisite check has found its command missing, *)
(* the process has exited with status 1, that check is the last thing it   *)
(* did, and no external command of the pipeline making the check has been  *)
(* run; when the check is the Java pipeline's, no external command at all. *)
(***************************************************************************)
C1_NoActionOfOwnPipeline ==
    \A i \in DOMAIN world.trace :
        IsMissingCommand(world.trace[i]) =>
            /\ world.pc = "exited"
            /\ world.exit_code = 1
            /\ i = Len(world.trace)
            /\ \A u \in Entries(world) :
                  u.op = "run" => u.pl # world.trace[i].pl /\ world.trace[i].pl = "cpp"

\* A C++ prerequisite is missing after the Java pipeline has run its commands.
C1_Witness ==
    /\ world.pc = "exited"
    /\ world.exit_code = 1
    /\ \E t \in Entries(world) : IsMissingCommand(t) /\ t.pl = "cpp" /\ t.arg = "cmake"
    /\ \E u \in Entries(world) : u.op = "run" /\ u.pl = "java"

(***************************************************************************)
(* C2: a process that is over has exit code 0 or 1; it is 0 exactly when   *)
(* every requested pipeline ran through its harvest with no failing step,  *)
(* and 1 exactly when a prerequisite was missing, an external command      *)
(* exited non-zero or the Java generated-files directory was not found;    *)
(* nothing else (no uncaught exception of a modelled step) ends a process. *)
(***************************************************************************)
C2_ExitCode ==
    /\ world.pc # "exited" => world.exit_code = Running
    /\ world.pc = "exited" =>
          /\ world.exit_code \in {0, 1}
          /\ world.exit_code = 0 <=>
                /\ \A t \in Entries(world) : t.ok
                /\ WantsJava(world.argv) => Harvested(world, "java")
                /\ WantsCpp(world.argv) => Harvested(world, "cpp")
          /\ world.exit_code = 1 <=> \E t \in Entries(world) : IsFatal(t)
          /\ world.exit_code = 1 => world.cause \in
                {"missing_command", "command_failed", "missing_directory"}
          /\ world.exit_code = 0 => world.cause = "none"

\* The Maven step succeeded and left no generated-files directory.
C2_Witness ==
    /\ world.pc = "exited"
    /\ world.exit_code = 1
    /\ world.cause = "missing_directory"
    /\ \E t \in Entries(world) : t.op = "run" /\ t.arg = "mvn test" /\ t.ok

(***************************************************************************)
(* C3: no step of a process launched with --cpp alone reads or writes      *)
(* tmp_datasketches_java or serialization_test_data/java_generated_files,  *)
(* and neither changes; and every step of a pipeline reads and writes only *)
(* that pipeline's temporary and output directories (and the parent of its *)
(* output directory), leaving the other pipeline's directories as they are.*)
(***************************************************************************)
C3_PipelineFrame ==
    [][ Live(world) =>
          /\ world.argv = {"--cpp"} =>
                /\ \A t \in Added(world, world') : t.at \cap JavaDirs = {}
                /\ \A d \in JavaDirs : world'.fs[d] = world.fs[d]
          /\ \A t \in Added(world, world') :
                /\ t.pl = "java" =>
                      /\ t.at \cap CppDirs = {}
                      /\ \A d \in CppDirs : world'.fs[d] = world.fs[d]
                /\ t.pl = "cpp" =>
                      /\ t.at \cap JavaDirs = {}
                      /\ \A d \in JavaDirs : world'.fs[d] = world.fs[d]
          /\ Added(world, world') = {} => world'.fs = world.fs
      ]_vars

\* A --cpp run that harvested, over what an earlier Java run left behind.
C3_Witness ==
    /\ world.argv = {"--cpp"}
    /\ world.pc = "exited"
    /\ world.exit_code = 0
    /\ world.files_copied.cpp > 0
    /\ world.fs["tmp_datasketches_java"].files # {}
    /\ world.fs["serialization_test_data/java_generated_files"].files # {}

(***************************************************************************)
(* C4: a process launched with no switch and a process launched with --all *)
(* on the same filesystem, meeting the same outcomes, are at the same step *)
(* after every step, have done the same things, and have the same exit     *)
(* code and the same filesystem.                                           *)
(***************************************************************************)
Observable(w) ==
    [pc |-> w.pc, exit_code |-> w.exit_code, cause |-> w.cause, fs |-> w.fs,
     files_copied |-> w.files_copied, trace |-> w.trace, warned |-> w.warned]

C4_NoFlagsIsAll ==
    /\ Observable(world) = Observable(twin)
    /\ world.pc # "default_all" => world.args = twin.args

\* Both were launched, one with no switch, and ran both pipelines to the end.
C4_Witness ==
    /\ world.argv = {}
    /\ twin.argv = {"--all"}
    /\ twin.pc = "exited"
    /\ twin.exit_code = 0
    /\ Harvested(twin, "java")
    /\ Harvested(twin, "cpp")

(***************************************************************************)
(* C5: whatever earlier runs left in a pipeline's temporary directory, no  *)
(* run fails on the directory being there (no mkdir fails), and when the   *)
(* git clone step begins the directory exists and is empty.                *)
(***************************************************************************)
C5_CleanTempDir ==
    /\ world.pc = "j_clone" => world.fs["tmp_datasketches_java"] = EmptyDir
    /\ world.pc = "c_clone" => world.fs["tmp_datasketches_cpp"] = EmptyDir
    /\ \A t \in Entries(world) : t.op = "mkdir" => t.ok
    /\ world.cause # "exception"

\* The clone is about to begin where an earlier run had left a populated clone.
C5_Witness ==
    /\ world.pc = "c_clone"
    /\ "tmp_datasketches_cpp" \in world.cleaned
    /\ "tmp_datasketches_java" \in world.cleaned

(***************************************************************************)
(* C6: no step of any run removes an output directory, or the parent of    *)
(* the two, or a file name from an output directory: a step leaves an      *)
(* output directory as it is, creates it, or adds or replaces files in it. *)
(***************************************************************************)
C6_AppendOnly ==
    [][ /\ world.fs["serialization_test_data"].exists
              => world'.fs["serialization_test_data"].exists
        /\ \A d \in {"serialization_test_data/java_generated_files",
                     "serialization_test_data/cpp_generated_files"} :
              /\ world.fs[d].exists => world'.fs[d].exists
              /\ Names(world.fs[d]) \subseteq Names(world'.fs[d])
              /\ world'.fs[d] # world.fs[d] =>
                    \E t \in Added(world, world') :
                       t.op \in {"mkdir", "copy"} /\ t.arg = d
      ]_vars

\* A second run that harvested nothing, with the first run's artifact still there.
C6_Witness ==
    /\ nruns = 2
    /\ world.pc = "exited"
    /\ Harvested(world, "java")
    /\ world.files_copied.java = 0
    /\ <<"kll", ".sk">> \in Names(world.fs["serialization_test_data/java_generated_files"])

(***************************************************************************)
(* C7: a pipeline whose harvest matched no file has printed a warning and  *)
(* no error, and has not ended the process: the run goes on to the next    *)
(* dispatch or to the return of main, a later exit with status 1 is due to *)
(* a step of the other pipeline, and a run with no failing step exits 0.   *)
(* A pipeline warns only when it copied nothing.                           *)
(***************************************************************************)
C7_ZeroMatchWarns ==
    \A pl \in {"java", "cpp"} :
        /\ Harvested(world, pl) /\ world.files_copied[pl] = 0 =>
              /\ pl \in world.warned
              /\ \E t \in Entries(world) : t.pl = pl /\ t.op = "warning" /\ t.ok
              /\ \A t \in Entries(world) : t.pl = pl => t.ok
              /\ world.pc = "exited" /\ (\A t \in Entries(world) : t.ok)
                    => world.exit_code = 0
        /\ pl \in world.warned => Harvested(world, pl) /\ world.files_copied[pl] = 0

\* Both harvests matched nothing and the process exited 0.
C7_Witness ==
    /\ world.pc = "exited"
    /\ world.exit_code = 0
    /\ world.warned = {"java", "cpp"}
    /\ world.fs["tmp_datasketches_java"].files \ RepoFiles # {}
    /\ world.fs["tmp_datasketches_cpp"].files \ RepoFiles # {}

(***************************************************************************)
(* The files of a clone that are below build/ and named *_cpp.sk, written  *)
(* out on the representation of names and directories.                     *)
(***************************************************************************)
CppArtifacts(tree) ==
    {f \in tree.files :
        /\ Len(f.dir) >= 1
        /\ f.dir[1] = "build"
        /\ Len(f.name) >= 2
        /\ f.name[Len(f.name) - 1] = "_cpp"
        /\ f.name[Len(f.name)] = ".sk"}

(***************************************************************************)
(* C8 as stated: after the C++ harvest, every file below the build         *)
(* directory named *_cpp.sk is in the output directory, under its name and *)
(* with its content; two files foo_cpp.sk at two depths are both there.    *)
(***************************************************************************)
C8_EveryArtifactInOutput ==
    Harvested(world, "cpp") =>
        \A f \in CppArtifacts(world.fs["tmp_datasketches_cpp"]) :
            \E g \in world.fs["serialization_test_data/cpp_generated_files"].files :
                g.name = f.name /\ g.data = f.data

(***************************************************************************)
(* C8 as amended: the C++ harvest runs one copy for every file below the   *)
(* build directory, at any depth, named *_cpp.sk; afterwards the output    *)
(* directory holds a file of each such name with the content of one of the *)
(* files of that name (of the file itself, when no other has its name):    *)
(* of two files foo_cpp.sk at two depths, both are copied and one is kept. *)
(***************************************************************************)
C8_EveryArtifactCopied ==
    Harvested(world, "cpp") =>
        LET M   == CppArtifacts(world.fs["tmp_datasketches_cpp"])
            out == world.fs["serialization_test_data/cpp_generated_files"].files
        IN  /\ world.files_copied.cpp = Cardinality(M)
            /\ \A f \in M :
                  /\ Cardinality({g \in out : g.name = f.name}) = 1
                  /\ \E g \in out, h \in M :
                        g.name = f.name /\ h.name = f.name /\ g.data = h.data
                  /\ (\A h \in M : h.name = f.name => h = f) =>
                        \E g \in out : g.name = f.name /\ g.data = f.data

\* Two files of one name at two depths: two copies, one file in the output.
C8_Witness ==
    /\ Harvested(world, "cpp")
    /\ world.files_copied.cpp = 2
    /\ Cardinality({f.dir : f \in CppArtifacts(world.fs["tmp_datasketches_cpp"])}) = 2
    /\ Cardinality(world.fs["serialization_test_data/cpp_generated_files"].files) = 1

(***************************************************************************)
(* C9: a fatal condition is the last thing a process does: the process is  *)
(* over with status 1, every step before it succeeded, and after a fatal   *)
(* condition in the Java pipeline the C++ pipeline was not entered.        *)
(***************************************************************************)
C9_FatalStopsEverything ==
    \A i \in DOMAIN world.trace :
        IsFatal(world.trace[i]) =>
            /\ i = Len(world.trace)
            /\ world.pc = "exited"
            /\ world.exit_code = 1
            /\ \A j \in 1..(i - 1) : world.trace[j].ok
            /\ world.trace[i].pl = "java" => ~Begun(world, "cpp")

\* Both pipelines requested, and the Java pipeline failed on its Maven step.
C9_Witness ==
    /\ world.argv = {"--java", "--cpp"}
    /\ world.pc = "exited"
    /\ \E t \in Entries(world) : IsCommandFailure(t) /\ t.pl = "java" /\ t.arg = "mvn.cmd test"
    /\ ~Begun(world, "cpp")

(***************************************************************************)
(* C10 as stated: when a process is over, the Java pipeline has run if and *)
(* only if --java or --all or no switch was given, and the C++ pipeline    *)
(* has run if and only if --cpp or --all or no switch was given.           *)
(***************************************************************************)
C10_RunsIffSelected ==
    world.pc = "exited" =>
        /\ Begun(world, "java") <=> WantsJava(world.argv)
        /\ Begun(world, "cpp") <=> WantsCpp(world.argv)

(***************************************************************************)
(* C10 as amended: a pipeline is entered only if its switch, --all or no   *)
(* switch was given, and at most once; when a process is over the Java     *)
(* pipeline has run if and only if it was so selected, and the C++         *)
(* pipeline if and only if it was so selected and no step of the Java      *)
(* pipeline failed; every step of the Java pipeline comes before every     *)
(* step of the C++ pipeline, which begins only after the Java harvest.     *)
(***************************************************************************)
C10_Dispatch ==
    LET tr == world.trace
    IN  /\ Begun(world, "java") => WantsJava(world.argv)
        /\ Begun(world, "cpp") => WantsCpp(world.argv)
        /\ \A pl \in {"java", "cpp"} :
              Cardinality({i \in DOMAIN tr : tr[i].pl = pl /\ tr[i].op = "begin"}) <= 1
        /\ \A i \in 1..(Len(tr) - 1) : tr[i].pl = "cpp" => tr[i + 1].pl = "cpp"
        /\ Begun(world, "cpp") /\ WantsJava(world.argv) => Harvested(world, "java")
        /\ world.pc = "exited" =>
              /\ Begun(world, "java") <=> WantsJava(world.argv)
              /\ Begun(world, "cpp") <=>
                    /\ WantsCpp(world.argv)
                    /\ \A t \in Entries(world) : t.pl = "java" => t.ok

\* --java --all: both pipelines ran, the Java one first and through its harvest.
C10_Witness ==
    /\ world.argv = {"--java", "--all"}
    /\ world.pc = "exited"
    /\ Harvested(world, "java")
    /\ Begun(world, "cpp")
    /\ world.exit_code = 1

=============================================================================
